---- MODULE Spec2Model ----
(***************************************************************************)
(* Model of the vault-game score/session recorder (src/database.js).       *)
(*                                                                         *)
(* The database is two tables, players and game_sessions, reached through  *)
(* a connection pool.  Every exported function is an async function: it    *)
(* runs from one await to the next, and the statements it sends execute    *)
(* one at a time at the database.  A caller (Procs) is one in-flight call  *)
(* of the module; its pc is the await it is suspended at.  A step is the   *)
(* resolution of that await (a connection handed out, a statement run at   *)
(* the database) together with the synchronous code up to the next await.  *)
(*                                                                         *)
(* DATABASE_URL selects the server.  The session UPDATE of                 *)
(* completeGameSession carries ORDER BY and LIMIT; PostgreSQL's UPDATE has *)
(* neither clause and rejects the statement with a syntax error, while a   *)
(* wire-compatible server that has them runs it as written.  Both are      *)
(* modelled: acceptsOrderedUpdate is fixed by the initial state.           *)
(***************************************************************************)
EXTENDS Integers, Sequences, FiniteSets, TLC

(* ----------------------------- bounds ---------------------------------- *)
MaxPlayers == 2
MaxSessions == 2
MaxTime == 1
PoolMax == 2
MaxFaults == 1
TicksPerSecond == 2

Procs == {1, 2}
Names == {"Ada"}
Emails == {"a@x.com", "b@x.com"}
\* the (score, vaultsOpened, winStatus) a game reports: a win with the best score,
\* a loss with fewer points and more vaults, and a negative score (the columns are INTEGER)
Plays == {[score |-> 500, vaults |-> 0, won |-> TRUE],
          [score |-> 300, vaults |-> 3, won |-> FALSE],
          [score |-> 0 - 10, vaults |-> 0, won |-> FALSE]}

Abs(x) == IF x >= 0 THEN x ELSE 0 - x

\* SQL NULL in a TIMESTAMP / INTEGER column (timestamps and durations are >= 0)
NULL == -1

VARIABLES
    acceptsOrderedUpdate, \* whether the engine behind DATABASE_URL executes UPDATE ... ORDER BY ... LIMIT
    players,              \* table players, in id order
    game_sessions,        \* table game_sessions, in id order
    now,                  \* the database clock (CURRENT_TIMESTAMP), in ticks of 1/TicksPerSecond s
    pc,                   \* per caller: the await it is suspended at
    op,                   \* per caller: the exported function it called
    args,                 \* per caller: the arguments of that call
    loc,                  \* per caller: the locals of the running function(s)
    held,                 \* per caller: pool connections checked out and not released
    faults,               \* connection and statement failures the database has caused so far
    aggregated,           \* history: session ids whose player UPDATE (lines 141-148) has run
    plan,                 \* the calls one caller makes one after the other (<< >>: callers call freely)
    script,               \* the calls of plan not yet started
    results,              \* the outcomes of the calls of plan made so far, in order
    \* the face-scan page (src/face-scan.js), one page load
    page,                 \* "open", or "left" once the page navigated to the game
    playerName,           \* this.playerName
    detector,             \* this.faceDetectionSupported: the browser has the FaceDetector API
    camera,               \* getUserMedia: "acquiring", "live", "stopped", or the name of its error
    socket,               \* this.socket: "none" (no socket), "disconnected" or "connected"
    detecting,            \* the capturePhoto calls awaiting detectFace: whether each drew a live frame
    timers,               \* the pending setTimeout callbacks, with the time left to each
    cycles,               \* per requestPrediction call: its predictionShown and its once-listener
    dom,                  \* the elements of the page the script reads and writes
    tally,                \* history: clicks, socket events, requests emitted, showPrediction runs
    \* one call of detectFace (src/face-scan.js:189-244)
    platform,             \* the browser: window.FaceDetector and what its detect() does
    canvas,               \* the canvas passed to detectFace: its size and what is drawn on it
    step,                 \* "constructed", "initialized" (initFaceDetection ran) or "detected"
    verdict               \* what detectFace resolved to (FALSE until step = "detected")

dbVars == <<acceptsOrderedUpdate, players, game_sessions, now, pc, op, args, loc, held, faults,
            aggregated, plan, script, results>>
faceVars == <<page, playerName, detector, camera, socket, detecting, timers, cycles, dom, tally>>
scanVars == <<platform, canvas, step, verdict>>
vars == <<dbVars, faceVars, scanVars>>

db == <<players, game_sessions>>

(* --------------------------- values ------------------------------------ *)
NoOut == [kind |-> "none", val |-> 0, err |-> ""]
Ok(v) == [kind |-> "ok", val |-> v, err |-> ""]
Null == [kind |-> "null", val |-> 0, err |-> ""]
Throw(e) == [kind |-> "throw", val |-> 0, err |-> e]

NoArgs == [name |-> "", email |-> "", score |-> 0, vaults |-> 0, won |-> FALSE, limit |-> 0]
NoLoc == [playerId |-> 0, sid |-> 0, pid |-> 0, out |-> NoOut, stmt |-> 0]

(* --------------------------- SQL --------------------------------------- *)
\* GREATEST(a, b)
Greatest(a, b) == IF a >= b THEN a ELSE b

\* EXTRACT(EPOCH FROM interval) stored into an INTEGER column: seconds, rounded
EpochSeconds(ticks) == (2 * ticks + TicksPerSecond) \div (2 * TicksPerSecond)

\* the row INSERT INTO players ... VALUES ($1, $2, 0, 0, false, now, now) builds; id is SERIAL
NewPlayerRow(name, email) ==
    [id |-> Len(players) + 1, name |-> name, email |-> email, score |-> 0,
     vaults_opened |-> 0, win_status |-> FALSE, created_at |-> now, updated_at |-> now]

\* the columns of players under a unique constraint: the PRIMARY KEY alone
\* (idx_players_email is a plain index, not a unique one)
PlayersUniqueKey(r) == <<r.id>>

\* ON CONFLICT: an existing row has the same key under a unique constraint
PlayersConflict(r) ==
    \E i \in DOMAIN players : PlayersUniqueKey(players[i]) = PlayersUniqueKey(r)

\* SELECT id FROM players WHERE email = $1
PlayerIdsByEmail(email) == {players[i].id : i \in {j \in DOMAIN players : players[j].email = email}}

\* the row INSERT INTO game_sessions ... VALUES ($1, $2, $3, 0, 0, false, now) builds
NewSessionRow(playerId, name, email) ==
    [id |-> Len(game_sessions) + 1, player_id |-> playerId, name |-> name, email |-> email,
     score |-> 0, vaults_opened |-> 0, win_status |-> FALSE, game_started_at |-> now,
     game_completed_at |-> NULL, duration_seconds |-> NULL]

\* WHERE email = $4 AND game_completed_at IS NULL
OpenSessions(email) ==
    {i \in DOMAIN game_sessions :
        game_sessions[i].email = email /\ game_sessions[i].game_completed_at = NULL}

\* ORDER BY game_started_at DESC LIMIT 1: the rows that can come first
LatestOpen(email) ==
    {i \in OpenSessions(email) :
        \A j \in OpenSessions(email) :
            game_sessions[j].game_started_at <= game_sessions[i].game_started_at}

\* a variant of the session UPDATE with a slip in it: the duration taken from the clock
\* alone, game_started_at not subtracted
FinalizeRowSinceEpoch(s, score, vaults, won) ==
    [s EXCEPT !.score = score, !.vaults_opened = vaults, !.win_status = won,
              !.game_completed_at = now,
              !.duration_seconds = EpochSeconds(now)]

\* SET score = $1, vaults_opened = $2, win_status = $3, game_completed_at = now, duration_seconds = ...
FinalizeRow(s, score, vaults, won) ==
    [s EXCEPT !.score = score, !.vaults_opened = vaults, !.win_status = won,
              !.game_completed_at = now,
              !.duration_seconds = EpochSeconds(now - s.game_started_at)]

\* variants of the player UPDATE with a slip in it: vaults_opened left out of the SET list,
\* the new values assigned instead of combined, win_status left out
AggregateRowScoreOnly(p, score, vaults, won) ==
    [p EXCEPT !.score = Greatest(p.score, score),
              !.win_status = IF won = TRUE THEN TRUE ELSE p.win_status,
              !.updated_at = now]
AggregateRowOverwrite(p, score, vaults, won) ==
    [p EXCEPT !.score = score, !.vaults_opened = vaults, !.win_status = won, !.updated_at = now]
AggregateRowNoWin(p, score, vaults, won) ==
    [p EXCEPT !.score = Greatest(p.score, score),
              !.vaults_opened = Greatest(p.vaults_opened, vaults),
              !.updated_at = now]

\* SET score = GREATEST(score, $1), vaults_opened = GREATEST(vaults_opened, $2),
\*     win_status = CASE WHEN $3 = true THEN true ELSE win_status END, updated_at = now
AggregateRow(p, score, vaults, won) ==
    [p EXCEPT !.score = Greatest(p.score, score),
              !.vaults_opened = Greatest(p.vaults_opened, vaults),
              !.win_status = IF won = TRUE THEN TRUE ELSE p.win_status,
              !.updated_at = now]

(* --------------------------- the pool ---------------------------------- *)
RECURSIVE SumHeld(_)
SumHeld(S) == IF S = {} THEN 0 ELSE LET p == CHOOSE x \in S : TRUE IN held[p] + SumHeld(S \ {p})

\* pool.connect() resolves when a connection is free; otherwise it waits
ConnectionFree == SumHeld(Procs) < PoolMax

Acquire(p) == held' = [held EXCEPT ![p] = held[p] + 1]
\* client.release(), n times (n = 2 when an error leaves upsertPlayer and createGameSession at once)
Release(p, n) == held' = [held EXCEPT ![p] = held[p] - n]

(* --------------------------- failures ---------------------------------- *)
\* the database is unreachable, or fails the statement it was sent
Fault == faults < MaxFaults /\ faults' = faults + 1
NoFault == faults' = faults

(* ------------------------ call and return ------------------------------ *)
\* rows the calls in flight will still insert (the tables are bounded)
PlayersToCome == Cardinality({p \in Procs : pc[p] \in {"u_connect", "u_insert", "c_connect"}})
SessionsToCome == Cardinality({p \in Procs : op[p] = "createGameSession"})

\* the one caller of a plan
Caller == CHOOSE p \in Procs : \A q \in Procs : p <= q

Outcome(p, out) == [op |-> op[p], email |-> args[p].email, kind |-> out.kind,
                    val |-> out.val, err |-> out.err]

\* the exported function settles its promise with out
Return(p, out) ==
    /\ pc' = [pc EXCEPT ![p] = "idle"]
    /\ op' = [op EXCEPT ![p] = ""]
    /\ args' = [args EXCEPT ![p] = NoArgs]
    /\ loc' = [loc EXCEPT ![p] = NoLoc]
    /\ results' = IF plan # << >> /\ p = Caller THEN Append(results, Outcome(p, out)) ELSE results
    /\ UNCHANGED <<plan, script>>

Start(p, f, a) ==
    /\ pc[p] = "idle"
    /\ op' = [op EXCEPT ![p] = f]
    /\ args' = [args EXCEPT ![p] = a]
    /\ loc' = [loc EXCEPT ![p] = NoLoc]
    /\ pc' = [pc EXCEPT ![p] = CASE f = "upsertPlayer" -> "u_connect"
                                 [] f = "createGameSession" -> "c_connect"
                                 [] f = "completeGameSession" -> "g_connect"
                                 [] OTHER -> "r_connect"]
    /\ UNCHANGED <<faceVars, scanVars, acceptsOrderedUpdate, now, db, held, faults, aggregated, plan, results>>

\* the calls that write: a player registers, a game starts, a game ends
Calls(p) ==
    \/ \E n \in Names, e \in Emails :
         /\ Len(players) + PlayersToCome < MaxPlayers
         /\ Start(p, "upsertPlayer", [NoArgs EXCEPT !.name = n, !.email = e])
    \/ \E n \in Names, e \in Emails :
         /\ Len(players) + PlayersToCome < MaxPlayers
         /\ Len(game_sessions) + SessionsToCome < MaxSessions
         /\ Start(p, "createGameSession", [NoArgs EXCEPT !.name = n, !.email = e])
    \/ \E e \in Emails, g \in Plays :
         Start(p, "completeGameSession",
               [NoArgs EXCEPT !.email = e, !.score = g.score, !.vaults = g.vaults, !.won = g.won])

\* a caller of the module invokes one of the exported functions
Invoke(p) ==
    /\ plan = << >>
    /\ UNCHANGED script
    /\ Calls(p)

(* --------------------------- upsertPlayer ------------------------------ *)
\* lines 110-115: createGameSession's catch rethrows, its finally releases
CreateSettle(p, out, n) ==
    /\ Release(p, n)
    /\ Return(p, out)

\* lines 87-92: catch rethrows, finally releases, the promise settles; when the caller is
\* createGameSession (line 100) it goes on with the id or leaves through its own catch
UpsertSettle(p, out) ==
    IF op[p] = "upsertPlayer"
    THEN /\ Release(p, 1)
         /\ Return(p, out)
    ELSE IF out.kind = "ok"
         THEN /\ Release(p, 1)
              /\ loc' = [loc EXCEPT ![p].playerId = out.val]
              /\ pc' = [pc EXCEPT ![p] = "c_insert"]
              /\ UNCHANGED <<op, args, plan, script, results>>
         ELSE CreateSettle(p, out, 2)

\* line 68: const client = await pool.connect()   (outside the try)
UpsertConnect(p) ==
    /\ pc[p] = "u_connect"
    /\ UNCHANGED <<faceVars, scanVars, acceptsOrderedUpdate, now, db, aggregated>>
    /\ \/ /\ ConnectionFree
          /\ NoFault
          /\ Acquire(p)
          /\ pc' = [pc EXCEPT ![p] = "u_insert"]
          /\ UNCHANGED <<op, args, loc, plan, script, results>>
       \/ \* the pool cannot reach the database: upsertPlayer rejects, nothing to release
          /\ Fault
          /\ IF op[p] = "upsertPlayer"
             THEN UNCHANGED held /\ Return(p, Throw("connection"))
             ELSE CreateSettle(p, Throw("connection"), 1)

\* the outcomes of lines 70-86: INSERT ... ON CONFLICT DO NOTHING RETURNING id, and, when
\* that returns no row, SELECT id FROM players WHERE email = $1 and rows[0].id
UpsertOutcomes(name, email) ==
    LET row == NewPlayerRow(name, email) IN
    IF ~PlayersConflict(row)
    THEN {[table |-> Append(players, row), out |-> Ok(row.id)]}
    ELSE IF PlayerIdsByEmail(email) = {}
         THEN {[table |-> players, out |-> Throw("TypeError")]}
         ELSE {[table |-> players, out |-> Ok(id)] : id \in PlayerIdsByEmail(email)}

\* lines 70-92
UpsertInsert(p) ==
    /\ pc[p] = "u_insert"
    /\ UNCHANGED <<faceVars, scanVars, acceptsOrderedUpdate, now, game_sessions, aggregated>>
    /\ \/ \E r \in UpsertOutcomes(args[p].name, args[p].email) :
            /\ NoFault
            /\ players' = r.table
            /\ UpsertSettle(p, r.out)
       \/ \* the statement fails at the database
          /\ Fault
          /\ UNCHANGED players
          /\ UpsertSettle(p, Throw("query"))

upsertPlayer(p) == UpsertConnect(p) \/ UpsertInsert(p)

(* ------------------------- createGameSession --------------------------- *)
\* line 97: const client = await pool.connect(); line 100 then calls upsertPlayer
CreateConnect(p) ==
    /\ pc[p] = "c_connect"
    /\ UNCHANGED <<faceVars, scanVars, acceptsOrderedUpdate, now, db, aggregated>>
    /\ \/ /\ ConnectionFree
          /\ NoFault
          /\ Acquire(p)
          /\ pc' = [pc EXCEPT ![p] = "u_connect"]
          /\ UNCHANGED <<op, args, loc, plan, script, results>>
       \/ /\ Fault
          /\ UNCHANGED held
          /\ Return(p, Throw("connection"))

\* lines 103-115: INSERT INTO game_sessions ... RETURNING id, return result.rows[0].id
CreateInsert(p) ==
    /\ pc[p] = "c_insert"
    /\ UNCHANGED <<faceVars, scanVars, acceptsOrderedUpdate, now, players, aggregated>>
    /\ \/ LET row == NewSessionRow(loc[p].playerId, args[p].name, args[p].email) IN
          /\ NoFault
          /\ game_sessions' = Append(game_sessions, row)
          /\ CreateSettle(p, Ok(row.id), 1)
       \/ /\ Fault
          /\ UNCHANGED game_sessions
          /\ CreateSettle(p, Throw("query"), 1)

createGameSession(p) == CreateConnect(p) \/ CreateInsert(p)

(* ------------------------ completeGameSession -------------------------- *)
\* lines 154-159: catch rethrows, finally releases
CompleteSettle(p, out) ==
    /\ Release(p, 1)
    /\ Return(p, out)

\* line 120
CompleteConnect(p) ==
    /\ pc[p] = "g_connect"
    /\ UNCHANGED <<faceVars, scanVars, acceptsOrderedUpdate, now, db, aggregated>>
    /\ \/ /\ ConnectionFree
          /\ NoFault
          /\ Acquire(p)
          /\ pc' = [pc EXCEPT ![p] = "g_session"]
          /\ UNCHANGED <<op, args, loc, plan, script, results>>
       \/ /\ Fault
          /\ UNCHANGED held
          /\ Return(p, Throw("connection"))

\* variants of the session UPDATE's choice with a slip in it: the filter
\* game_completed_at IS NULL left out; the order ascending
SessionsOf(email) == {i \in DOMAIN game_sessions : game_sessions[i].email = email}
SessionTargetsAnyRow(email) ==
    {i \in SessionsOf(email) :
        \A j \in SessionsOf(email) :
            game_sessions[j].game_started_at <= game_sessions[i].game_started_at}
SessionTargetsOldest(email) ==
    {i \in OpenSessions(email) :
        \A j \in OpenSessions(email) :
            game_sessions[i].game_started_at <= game_sessions[j].game_started_at}

\* the rows the session UPDATE may pick: WHERE ... ORDER BY game_started_at DESC LIMIT 1
SessionTargets(email) == LatestOpen(email)

\* lines 123-138 and 153: UPDATE game_sessions SET ... WHERE ... ORDER BY ... LIMIT 1
\* RETURNING id, player_id
CompleteUpdateSession(p) ==
    /\ pc[p] = "g_session"
    /\ UNCHANGED <<faceVars, scanVars, acceptsOrderedUpdate, now, players, aggregated>>
    /\ \/ \* the engine has no ORDER BY / LIMIT on UPDATE: syntax error
          /\ ~acceptsOrderedUpdate
          /\ NoFault
          /\ UNCHANGED game_sessions
          /\ CompleteSettle(p, Throw("syntax"))
       \/ \* no row matches: result.rows is empty, return null
          /\ acceptsOrderedUpdate
          /\ SessionTargets(args[p].email) = {}
          /\ NoFault
          /\ UNCHANGED game_sessions
          /\ CompleteSettle(p, Null)
       \/ /\ acceptsOrderedUpdate
          /\ NoFault
          /\ \E i \in SessionTargets(args[p].email) :
                /\ game_sessions' = [game_sessions EXCEPT ![i] =
                        FinalizeRow(game_sessions[i], args[p].score, args[p].vaults, args[p].won)]
                /\ loc' = [loc EXCEPT ![p].sid = game_sessions[i].id,
                                      ![p].pid = game_sessions[i].player_id]
          /\ pc' = [pc EXCEPT ![p] = "g_player"]
          /\ UNCHANGED <<op, args, held, plan, script, results>>
       \/ \* the statement fails at the database
          /\ Fault
          /\ UNCHANGED game_sessions
          /\ CompleteSettle(p, Throw("query"))

\* lines 141-150: UPDATE players SET ... WHERE id = $4, then return result.rows[0].id
CompleteUpdatePlayer(p) ==
    /\ pc[p] = "g_player"
    /\ UNCHANGED <<faceVars, scanVars, acceptsOrderedUpdate, now, game_sessions>>
    /\ \/ /\ NoFault
          /\ players' = [i \in DOMAIN players |->
                            IF players[i].id = loc[p].pid
                            THEN AggregateRow(players[i], args[p].score, args[p].vaults, args[p].won)
                            ELSE players[i]]
          /\ aggregated' = aggregated \cup {loc[p].sid}
          /\ CompleteSettle(p, Ok(loc[p].sid))
       \/ /\ Fault
          /\ UNCHANGED <<players, aggregated>>
          /\ CompleteSettle(p, Throw("query"))

completeGameSession(p) ==
    CompleteConnect(p) \/ CompleteUpdateSession(p) \/ CompleteUpdatePlayer(p)

(* ------------------------------ time ----------------------------------- *)
\* the database clock advances
Tick ==
    /\ now < MaxTime
    /\ now' = now + 1
    /\ UNCHANGED <<faceVars, scanVars, acceptsOrderedUpdate, db, pc, op, args, loc, held, faults, aggregated,
                   plan, script, results>>

(* -------------------------- specification ------------------------------ *)
\* no call of detectFace is followed
NoScan ==
    /\ platform = << >>
    /\ canvas = << >>
    /\ step = ""
    /\ verdict = FALSE

\* the face-scan page plays no part in the database module
NoPage ==
    /\ page = "left"
    /\ playerName = ""
    /\ detector = FALSE
    /\ camera = "stopped"
    /\ socket = "none"
    /\ detecting = << >>
    /\ timers = << >>
    /\ cycles = << >>
    /\ dom = << >>
    /\ tally = << >>

\* after initDatabase: both tables exist and are empty, nothing is in flight
InitDb ==
    /\ NoPage
    /\ NoScan
    /\ acceptsOrderedUpdate \in BOOLEAN
    /\ players = << >>
    /\ game_sessions = << >>
    /\ now = 0
    /\ pc = [p \in Procs |-> "idle"]
    /\ op = [p \in Procs |-> ""]
    /\ args = [p \in Procs |-> NoArgs]
    /\ loc = [p \in Procs |-> NoLoc]
    /\ held = [p \in Procs |-> 0]
    /\ faults = 0
    /\ aggregated = {}
    /\ results = << >>

Init ==
    /\ InitDb
    /\ plan = << >>
    /\ script = << >>

Next ==
    \/ \E p \in Procs : Invoke(p)
    \/ \E p \in Procs : upsertPlayer(p)
    \/ \E p \in Procs : createGameSession(p)
    \/ \E p \in Procs : completeGameSession(p)
    \/ Tick

Spec == Init /\ [][Next]_vars

(* ------------------- one caller, one call after the other -------------- *)
ScriptLen == 4
CallOf(f, n, e, g) ==
    [op |-> f, args |-> [NoArgs EXCEPT !.name = n, !.email = e, !.score = g.score,
                                       !.vaults = g.vaults, !.won = g.won]]
NoPlay == [score |-> 0, vaults |-> 0, won |-> FALSE]

ScriptCalls ==
    {CallOf(f, n, e, NoPlay) : f \in {"upsertPlayer", "createGameSession"}, n \in Names, e \in Emails}
    \cup {CallOf("completeGameSession", "", e, g) : e \in Emails, g \in Plays}

CountOps(s, fs) == Cardinality({i \in DOMAIN s : s[i].op \in fs})

Plans ==
    {s \in [1..ScriptLen -> ScriptCalls] :
        /\ CountOps(s, {"upsertPlayer", "createGameSession"}) <= MaxPlayers
        /\ CountOps(s, {"createGameSession"}) <= MaxSessions}

InitSeq ==
    /\ InitDb
    /\ plan \in Plans
    /\ script = plan

\* the caller awaits each call before it makes the next
ScriptInvoke ==
    /\ script # << >>
    /\ Start(Caller, Head(script).op, Head(script).args)
    /\ script' = Tail(script)

NextSeq ==
    \/ ScriptInvoke
    \/ \E p \in Procs : upsertPlayer(p)
    \/ \E p \in Procs : createGameSession(p)
    \/ \E p \in Procs : completeGameSession(p)
    \/ Tick

SpecSeq == InitSeq /\ [][NextSeq]_vars

(* ------------------- the reads, healthCheck, initDatabase -------------- *)
MaxLimit == 2
Limits == 0..MaxLimit

\* the statements of initDatabase, in order (lines 17-55)
SchemaStatements ==
    <<"players", "game_sessions", "idx_players_email", "idx_players_score", "idx_sessions_created">>

\* a variant of the catch blocks with a slip in it: the error logged and not thrown again
CatchSwallow(e) == Null
\* catch (err) { console.error(...); throw err; }
CatchRethrow(e) == Throw(e)
\* healthCheck's catch (lines 255-257): return false
HealthCatch(e) == Ok(FALSE)

\* the sequences that list each element of S once
Perms(S) ==
    {s \in [1..Cardinality(S) -> S] : \A a, b \in DOMAIN s : a # b => s[a] # s[b]}
\* ORDER BY: no row comes before one that precedes it (precedes: the pairs <<i, j>> with row i
\* strictly before row j); rows that tie come in any order
OrderedBy(S, precedes) ==
    {s \in Perms(S) : \A a, b \in DOMAIN s : a < b => <<s[b], s[a]>> \notin precedes}
\* LIMIT n
Limit(s, n) == SubSeq(s, 1, IF n < Len(s) THEN n ELSE Len(s))

\* SELECT name, email, score, vaults_opened, win_status, created_at, updated_at FROM players
PlayerColumns(r) ==
    [name |-> r.name, email |-> r.email, score |-> r.score, vaults_opened |-> r.vaults_opened,
     win_status |-> r.win_status, created_at |-> r.created_at, updated_at |-> r.updated_at]

\* variants of the leaderboard query with a slip in it: WHERE score >= 0; ORDER BY updated_at alone
OnLeaderboardWithZero == {i \in DOMAIN players : players[i].score >= 0}
LeaderboardOrderByRecency ==
    {<<i, j>> \in (DOMAIN players) \X (DOMAIN players) : players[i].updated_at > players[j].updated_at}

\* WHERE score > 0
OnLeaderboard == {i \in DOMAIN players : players[i].score > 0}
\* ORDER BY score DESC, updated_at DESC
LeaderboardOrder ==
    {<<i, j>> \in (DOMAIN players) \X (DOMAIN players) :
        \/ players[i].score > players[j].score
        \/ players[i].score = players[j].score /\ players[i].updated_at > players[j].updated_at}

\* the results the leaderboard query can have (lines 166-181)
LeaderboardRows(limit) ==
    {[k \in DOMAIN t |-> PlayerColumns(players[t[k]])] :
        t \in {Limit(o, limit) : o \in OrderedBy(OnLeaderboard, LeaderboardOrder)}}

\* SELECT id, name, email, score, ..., duration_seconds FROM game_sessions
SessionColumns(r) ==
    [id |-> r.id, name |-> r.name, email |-> r.email, score |-> r.score,
     vaults_opened |-> r.vaults_opened, win_status |-> r.win_status,
     game_started_at |-> r.game_started_at, game_completed_at |-> r.game_completed_at,
     duration_seconds |-> r.duration_seconds]
\* WHERE game_completed_at IS NOT NULL
CompletedSessions == {i \in DOMAIN game_sessions : game_sessions[i].game_completed_at # NULL}
\* ORDER BY game_completed_at DESC
CompletedOrder ==
    {<<i, j>> \in (DOMAIN game_sessions) \X (DOMAIN game_sessions) :
        game_sessions[i].game_completed_at > game_sessions[j].game_completed_at}

\* the results the sessions query can have (lines 194-211)
SessionRows(limit) ==
    {[k \in DOMAIN t |-> SessionColumns(game_sessions[t[k]])] :
        t \in {Limit(o, limit) : o \in OrderedBy(CompletedSessions, CompletedOrder)}}

RECURSIVE SumOf(_, _)
SumOf(S, f) == IF S = {} THEN 0 ELSE LET j == CHOOSE x \in S : TRUE IN f[j] + SumOf(S \ {j}, f)
\* AVG(column) over the joined rows S, NULLs left out: sum and count (count 0: the average is NULL)
Avg(S, f) ==
    LET T == {j \in S : f[j] # NULL} IN [sum |-> SumOf(T, f), count |-> Cardinality(T)]

\* FROM players p LEFT JOIN game_sessions gs ON p.id = gs.player_id: the sessions joined to row i
JoinedSessions(i) == {j \in DOMAIN game_sessions : game_sessions[j].player_id = players[i].id}
\* WHERE p.email = $1 GROUP BY p.id, ...: one group for each player row with the email
StatsGroups(email) == {i \in DOMAIN players : players[i].email = email}
\* the aggregate row of the group of player row i
StatsRow(i) ==
    [name |-> players[i].name, email |-> players[i].email, best_score |-> players[i].score,
     max_vaults |-> players[i].vaults_opened, win_status |-> players[i].win_status,
     total_games |-> Cardinality(JoinedSessions(i)),
     avg_score |-> Avg(JoinedSessions(i), [j \in DOMAIN game_sessions |-> game_sessions[j].score]),
     avg_duration |-> Avg(JoinedSessions(i),
                          [j \in DOMAIN game_sessions |-> game_sessions[j].duration_seconds])]
\* return result.rows[0] || null (line 240); the groups come in no particular order
StatsOutcomes(email) ==
    IF StatsGroups(email) = {} THEN {Null} ELSE {Ok(StatsRow(i)) : i \in StatsGroups(email)}

\* return / catch / finally { client.release() } of the functions that hold one connection
ReadSettle(p, out) ==
    /\ Release(p, 1)
    /\ Return(p, out)

\* const client = await pool.connect()   (lines 14, 164, 192, 222, 251: before the try)
ReadConnect(p, f) ==
    /\ pc[p] = "r_connect"
    /\ op[p] = f
    /\ UNCHANGED <<faceVars, scanVars, acceptsOrderedUpdate, now, db, aggregated>>
    /\ \/ /\ ConnectionFree
          /\ NoFault
          /\ Acquire(p)
          /\ pc' = [pc EXCEPT ![p] = "r_query"]
          /\ loc' = [loc EXCEPT ![p].stmt = 1]
          /\ UNCHANGED <<op, args, plan, script, results>>
       \/ \* the pool cannot reach the database: the call rejects, no catch is in reach
          /\ Fault
          /\ UNCHANGED held
          /\ Return(p, Throw("connection"))

\* one SELECT and the return, or the catch (the tables are only read)
ReadQuery(p, f, outcomes, caught) ==
    /\ pc[p] = "r_query"
    /\ op[p] = f
    /\ UNCHANGED <<faceVars, scanVars, acceptsOrderedUpdate, now, db, aggregated>>
    /\ \/ /\ NoFault
          /\ \E out \in outcomes : ReadSettle(p, out)
       \/ /\ Fault
          /\ ReadSettle(p, caught)

\* lines 163-188
getLeaderboard(p) ==
    \/ ReadConnect(p, "getLeaderboard")
    \/ ReadQuery(p, "getLeaderboard", {Ok(rows) : rows \in LeaderboardRows(args[p].limit)},
                 CatchRethrow("query"))

\* lines 191-218
getAllGameSessions(p) ==
    \/ ReadConnect(p, "getAllGameSessions")
    \/ ReadQuery(p, "getAllGameSessions", {Ok(rows) : rows \in SessionRows(args[p].limit)},
                 CatchRethrow("query"))

\* lines 221-247
getPlayerStats(p) ==
    \/ ReadConnect(p, "getPlayerStats")
    \/ ReadQuery(p, "getPlayerStats", StatsOutcomes(args[p].email), CatchRethrow("query"))

\* lines 250-261: SELECT 1, return true; catch: return false
healthCheck(p) ==
    \/ ReadConnect(p, "healthCheck")
    \/ ReadQuery(p, "healthCheck", {Ok(TRUE)}, HealthCatch("query"))

\* lines 13-64: CREATE TABLE IF NOT EXISTS / CREATE INDEX IF NOT EXISTS one after the other;
\* on tables that exist they change nothing; the function returns no value
initDatabase(p) ==
    \/ ReadConnect(p, "initDatabase")
    \/ /\ pc[p] = "r_query"
       /\ op[p] = "initDatabase"
       /\ UNCHANGED <<faceVars, scanVars, acceptsOrderedUpdate, now, db, aggregated>>
       /\ \/ /\ NoFault
             /\ IF loc[p].stmt < Len(SchemaStatements)
                THEN /\ loc' = [loc EXCEPT ![p].stmt = loc[p].stmt + 1]
                     /\ UNCHANGED <<pc, op, args, held, plan, script, results>>
                ELSE ReadSettle(p, Ok(0))
          \/ /\ Fault
             /\ ReadSettle(p, CatchRethrow("query"))

(* ------------- one call of any function, next to other callers --------- *)
ReadCalls ==
    {[op |-> f, args |-> [NoArgs EXCEPT !.limit = n]] :
        f \in {"getLeaderboard", "getAllGameSessions"}, n \in Limits}
    \cup {[op |-> "getPlayerStats", args |-> [NoArgs EXCEPT !.email = e]] : e \in Emails}
    \cup {[op |-> f, args |-> NoArgs] : f \in {"healthCheck", "initDatabase"}}

\* Caller makes one call, of any exported function, at any moment; the other callers
\* create and complete games meanwhile
InitOps ==
    /\ InitDb
    /\ plan \in {<<c>> : c \in ScriptCalls \cup ReadCalls}
    /\ script = plan

PlannedInvoke ==
    /\ script # << >>
    /\ Head(script).op \in {"upsertPlayer", "createGameSession"}
          => Len(players) + PlayersToCome < MaxPlayers
    /\ Head(script).op = "createGameSession"
          => Len(game_sessions) + SessionsToCome < MaxSessions
    /\ Start(Caller, Head(script).op, Head(script).args)
    /\ script' = Tail(script)

OtherInvoke(p) ==
    /\ p # Caller
    /\ UNCHANGED script
    /\ Calls(p)

NextOps ==
    \/ PlannedInvoke
    \/ \E p \in Procs : OtherInvoke(p)
    \/ \E p \in Procs : upsertPlayer(p)
    \/ \E p \in Procs : createGameSession(p)
    \/ \E p \in Procs : completeGameSession(p)
    \/ \E p \in Procs : getLeaderboard(p)
    \/ \E p \in Procs : getAllGameSessions(p)
    \/ \E p \in Procs : getPlayerStats(p)
    \/ \E p \in Procs : healthCheck(p)
    \/ \E p \in Procs : initDatabase(p)
    \/ Tick

SpecOps == InitOps /\ [][NextOps]_vars

(* ======================= the face-scan page ============================ *)
(* Model of src/face-scan.js: one page load.  The script is event driven: a   *)
(* step is one callback run to its end (a click, a settled promise, a timer,  *)
(* a socket event).  Time is counted in ticks of the shortest delay the       *)
(* script uses; a timer runs when its delay has passed, before more time      *)
(* passes.                                                                    *)
NoSocketMs == 500
AnimationMs == 2000
ResultTimeoutMs == 3000
WatchdogMs == 5000
ErrorFallbackMs == 2000
SkipDelayMs == 5000
NoFaceHideMs == 3000
TickMs == NoSocketMs
Ticks(ms) == ms \div TickMs

MaxClicks == 2
MaxEvents == 2

\* a text is the sequence of the strings concatenated into it; << >> is ''
PlayerNames == Names \cup {"Agent"}
CameraErrors == {"NotAllowedError", "NotFoundError", "NotReadableError", "OverconstrainedError"}
\* prediction:result {goodThings[2], fortune, wish}: every field filled, and fields left empty
ServerPayloads ==
    {[goodThings |-> <<<<"You read people well">>, <<"You stay calm">>>>,
      fortune |-> <<"A vault opens for you today.">>, wish |-> <<"Go get them!">>],
     [goodThings |-> <<<<"You read people well">>>>, fortune |-> << >>, wish |-> << >>]}
ServerErrors == {<<"Prediction failed">>}

NoTexts == [goodThing1 |-> << >>, goodThing2 |-> << >>, fortune |-> << >>, wish |-> << >>]
InitDom ==
    [captureDisabled |-> FALSE, captured |-> FALSE, overlay |-> FALSE,
     errorText |-> << >>, errorActive |-> FALSE,
     loadingActive |-> FALSE, loadingHidden |-> FALSE,
     skipBtn |-> FALSE, prediction |-> FALSE, continueBtn |-> FALSE, texts |-> NoTexts]
InitTally == [clicks |-> 0, events |-> 0, emitted |-> 0, shows |-> 0, unasked |-> FALSE]
\* a socket event with no prediction:request left for it to answer
Unasked == tally.unasked \/ tally.events >= tally.emitted

\* setTimeout(callback, ms); cycle: the requestPrediction call the callback closes over
Timer(kind, ms, c) == [kind |-> kind, left |-> Ticks(ms), cycle |-> c]
Remove(seq, i) == SubSeq(seq, 1, i - 1) \o SubSeq(seq, i + 1, Len(seq))
\* the timers of kind whose delay has passed
Due(kind) == {i \in DOMAIN timers : timers[i].kind = kind /\ timers[i].left = 0}

\* a || b for texts; list[k] || b
OrDefault(t, d) == IF t = << >> THEN d ELSE t
ItemOr(list, k, d) == IF k \in DOMAIN list THEN OrDefault(list[k], d) ELSE d

\* lines 363-393
showPrediction(d, data) ==
    [d EXCEPT !.loadingActive = FALSE, !.loadingHidden = TRUE,
              !.skipBtn = FALSE,
              !.texts = [goodThing1 |-> ItemOr(data.goodThings, 1, <<"You have incredible focus">>),
                         goodThing2 |-> ItemOr(data.goodThings, 2, <<"Your determination is unmatched">>),
                         fortune |-> OrDefault(data.fortune, <<"The vaults sense great potential in you.">>),
                         wish |-> OrDefault(data.wish, <<"Good luck, Agent ", playerName, "!">>)],
              !.prediction = TRUE,
              !.continueBtn = TRUE]

\* a variant of the fallback payload with a slip in it: the wish without the name
fallbackDataNameless ==
    [goodThings |-> <<<<"You have incredible focus and determination">>,
                      <<"Your quick thinking will be your greatest asset">>>>,
     fortune |-> <<"The vaults sense great potential in you. Trust your instincts and the codes will reveal themselves.">>,
     wish |-> <<"May luck be on your side, Agent!">>]

\* lines 397-404
fallbackData ==
    [goodThings |-> <<<<"You have incredible focus and determination">>,
                      <<"Your quick thinking will be your greatest asset">>>>,
     fortune |-> <<"The vaults sense great potential in you. Trust your instincts and the codes will reveal themselves.">>,
     wish |-> <<"May luck be on your side, Agent ", playerName, "!">>]

\* a variant of useFallbackPrediction with a slip in it: the loading indicator taken
\* away, the fallback not handed to showPrediction
useFallbackPredictionUnshown(d) == [d EXCEPT !.loadingActive = FALSE, !.loadingHidden = TRUE]

\* lines 395-407
useFallbackPrediction(d) == showPrediction(d, fallbackData)

\* lines 409-415 (the timer of lines 418-421 is set by the caller)
showError(d, message) ==
    [d EXCEPT !.loadingActive = FALSE, !.errorText = message, !.errorActive = TRUE]

\* lines 316-321: showFallback of requestPrediction call c
ShowFallback(c, ts) ==
    /\ timers' = ts
    /\ IF cycles[c].predictionShown
       THEN UNCHANGED <<cycles, dom, tally>>
       ELSE /\ cycles' = [cycles EXCEPT ![c].predictionShown = TRUE]
            /\ dom' = useFallbackPrediction(dom)
            /\ tally' = [tally EXCEPT !.shows = tally.shows + 1]

(* ------------------------------ initCamera ----------------------------- *)
\* lines 74-97: getUserMedia resolves
CameraGranted ==
    /\ page = "open"
    /\ camera = "acquiring"
    /\ camera' = "live"
    /\ UNCHANGED <<dbVars, scanVars, page, playerName, detector, socket, detecting, timers, cycles, dom, tally>>

\* lines 99-115: getUserMedia rejects with an error of name e
CameraErrorText(e) ==
    CASE e = "NotAllowedError" -> <<"Camera permission denied. Please go to Settings > Safari > Camera and allow access.">>
      [] e = "NotFoundError" -> <<"No camera found on this device.">>
      [] e = "NotReadableError" -> <<"Camera is in use by another app. Please close other apps and try again.">>
      [] OTHER -> <<"Camera access denied. Please allow camera access and refresh the page.">>

CameraRefused ==
    /\ page = "open"
    /\ camera = "acquiring"
    /\ \E e \in CameraErrors :
          /\ camera' = e
          /\ dom' = [dom EXCEPT !.errorText = CameraErrorText(e), !.errorActive = TRUE,
                                !.captureDisabled = TRUE]
    /\ UNCHANGED <<dbVars, scanVars, page, playerName, detector, socket, detecting, timers, cycles, tally>>

initCamera == CameraGranted \/ CameraRefused

(* ------------------------------ the socket ----------------------------- *)
\* lines 135-141: the socket connects, or loses its connection
SocketConnects ==
    /\ page = "open"
    /\ socket \in {"disconnected", "connected"}
    /\ socket' = IF socket = "connected" THEN "disconnected" ELSE "connected"
    /\ UNCHANGED <<dbVars, scanVars, page, playerName, detector, camera, detecting, timers, cycles, dom, tally>>

\* the server sends prediction:result: the listener of lines 143-146 runs, then the once
\* listeners of lines 333-341 in the order they were registered
PredictionResult ==
    /\ page = "open"
    /\ socket = "connected"
    /\ tally.events < MaxEvents
    /\ \E data \in ServerPayloads :
          LET listening == {c \in DOMAIN cycles : cycles[c].listening}
              showing == {c \in listening : ~cycles[c].predictionShown}
          IN /\ dom' = showPrediction(dom, data)
             /\ cycles' = [c \in DOMAIN cycles |->
                              IF c \in listening
                              THEN [predictionShown |-> TRUE, listening |-> FALSE]
                              ELSE cycles[c]]
             /\ tally' = [tally EXCEPT !.events = tally.events + 1,
                                       !.unasked = Unasked,
                                       !.shows = tally.shows + 1 + Cardinality(showing)]
    /\ UNCHANGED <<dbVars, scanVars, page, playerName, detector, camera, socket, detecting, timers>>

\* the server sends prediction:error: lines 148-151, showError
PredictionError ==
    /\ page = "open"
    /\ socket = "connected"
    /\ tally.events < MaxEvents
    /\ \E message \in ServerErrors : dom' = showError(dom, message)
    /\ timers' = Append(timers, Timer("errorFallback", ErrorFallbackMs, 0))
    /\ tally' = [tally EXCEPT !.events = tally.events + 1, !.unasked = Unasked]
    /\ UNCHANGED <<dbVars, scanVars, page, playerName, detector, camera, socket, detecting, cycles>>

\* lines 418-421: the timer of showError
ErrorFallback ==
    /\ page = "open"
    /\ \E i \in Due("errorFallback") :
          /\ timers' = Remove(timers, i)
          /\ dom' = useFallbackPrediction([dom EXCEPT !.errorActive = FALSE])
          /\ tally' = [tally EXCEPT !.shows = tally.shows + 1]
    /\ UNCHANGED <<dbVars, scanVars, page, playerName, detector, camera, socket, detecting, cycles>>

(* ------------------------------ capturePhoto --------------------------- *)
\* a variant of capturePhoto with a slip in it: the stream stopped and the button disabled
\* before the verdict of detectFace is looked at
DetectedStopsFirst(hasFace, ds) ==
    /\ detecting' = ds
    /\ camera' = IF camera = "live" THEN "stopped" ELSE camera
    /\ IF hasFace
       THEN /\ dom' = [dom EXCEPT !.errorActive = FALSE, !.captured = TRUE, !.overlay = TRUE,
                                  !.captureDisabled = TRUE]
            /\ timers' = Append(timers, Timer("animation", AnimationMs, 0))
       ELSE /\ dom' = [dom EXCEPT !.errorText = <<"No face detected! Please position your face in the center of the circle and try again.">>,
                                  !.errorActive = TRUE, !.captureDisabled = TRUE]
            /\ timers' = Append(timers, Timer("hideError", NoFaceHideMs, 0))

\* lines 265-304, once detectFace has resolved to hasFace; ds: the calls still detecting
Detected(hasFace, ds) ==
    /\ detecting' = ds
    /\ IF hasFace
       THEN /\ dom' = [dom EXCEPT !.errorActive = FALSE, !.captured = TRUE, !.overlay = TRUE,
                                  !.captureDisabled = TRUE]
            /\ camera' = IF camera = "live" THEN "stopped" ELSE camera
            /\ timers' = Append(timers, Timer("animation", AnimationMs, 0))
       ELSE /\ dom' = [dom EXCEPT !.errorText = <<"No face detected! Please position your face in the center of the circle and try again.">>,
                                  !.errorActive = TRUE]
            /\ timers' = Append(timers, Timer("hideError", NoFaceHideMs, 0))
            /\ UNCHANGED camera

\* what detectFace can find in the frame drawn: nothing unless the camera was delivering
Faces(live) == IF live THEN BOOLEAN ELSE {FALSE}

\* lines 246-263: a click on the capture button; without the FaceDetector API detectFace
\* does not wait for anything and the call runs to its end
CaptureClick ==
    /\ page = "open"
    /\ ~dom.captureDisabled
    /\ tally.clicks < MaxClicks
    /\ tally' = [tally EXCEPT !.clicks = tally.clicks + 1]
    /\ IF detector
       THEN /\ detecting' = Append(detecting, camera = "live")
            /\ UNCHANGED <<camera, timers, dom>>
       ELSE \E hasFace \in Faces(camera = "live") : Detected(hasFace, detecting)
    /\ UNCHANGED <<dbVars, scanVars, page, playerName, detector, socket, cycles>>

\* lines 193-195, 263: faceDetector.detect(canvas) settles
DetectSettles ==
    /\ page = "open"
    /\ \E i \in DOMAIN detecting :
          \E hasFace \in Faces(detecting[i]) : Detected(hasFace, Remove(detecting, i))
    /\ UNCHANGED <<dbVars, scanVars, page, playerName, detector, socket, cycles, tally>>

\* lines 271-273
HideError ==
    /\ page = "open"
    /\ \E i \in Due("hideError") :
          /\ timers' = Remove(timers, i)
          /\ dom' = [dom EXCEPT !.errorActive = FALSE]
    /\ UNCHANGED <<dbVars, scanVars, page, playerName, detector, camera, socket, detecting, cycles, tally>>

capturePhoto == CaptureClick \/ DetectSettles \/ HideError

(* ---------------------------- requestPrediction ------------------------ *)
\* lines 301-304 and 307-361: the animation timer runs requestPrediction
requestPrediction ==
    /\ page = "open"
    /\ \E i \in Due("animation") :
          LET c == Len(cycles) + 1 IN
          /\ dom' = [dom EXCEPT !.overlay = FALSE, !.loadingActive = TRUE]
          /\ IF socket = "connected"
             THEN /\ tally' = [tally EXCEPT !.emitted = tally.emitted + 1]
                  /\ cycles' = Append(cycles, [predictionShown |-> FALSE, listening |-> TRUE])
                  /\ timers' = Remove(timers, i) \o <<Timer("resultTimeout", ResultTimeoutMs, c),
                                                     Timer("watchdog", WatchdogMs, c)>>
             ELSE /\ UNCHANGED tally
                  /\ cycles' = Append(cycles, [predictionShown |-> FALSE, listening |-> FALSE])
                  /\ timers' = Remove(timers, i) \o <<Timer("noSocket", NoSocketMs, c),
                                                     Timer("watchdog", WatchdogMs, c)>>
    /\ UNCHANGED <<dbVars, scanVars, page, playerName, detector, camera, socket, detecting>>

\* line 351: setTimeout(showFallback, 500)
NoSocketFallback ==
    /\ page = "open"
    /\ \E i \in Due("noSocket") : ShowFallback(timers[i].cycle, Remove(timers, i))
    /\ UNCHANGED <<dbVars, scanVars, page, playerName, detector, camera, socket, detecting>>

\* lines 344-347: socket.off('prediction:result', originalHandler); showFallback()
ResultTimeout ==
    /\ page = "open"
    /\ \E i \in Due("resultTimeout") :
          LET c == timers[i].cycle IN
          /\ timers' = Remove(timers, i)
          /\ IF cycles[c].predictionShown
             THEN /\ cycles' = [cycles EXCEPT ![c].listening = FALSE]
                  /\ UNCHANGED <<dom, tally>>
             ELSE /\ cycles' = [cycles EXCEPT ![c] = [predictionShown |-> TRUE, listening |-> FALSE]]
                  /\ dom' = useFallbackPrediction(dom)
                  /\ tally' = [tally EXCEPT !.shows = tally.shows + 1]
    /\ UNCHANGED <<dbVars, scanVars, page, playerName, detector, camera, socket, detecting>>

\* lines 355-360
Watchdog ==
    /\ page = "open"
    /\ \E i \in Due("watchdog") :
          IF ~cycles[timers[i].cycle].predictionShown /\ ~dom.prediction
          THEN ShowFallback(timers[i].cycle, Remove(timers, i))
          ELSE /\ timers' = Remove(timers, i)
               /\ UNCHANGED <<cycles, dom, tally>>
    /\ UNCHANGED <<dbVars, scanVars, page, playerName, detector, camera, socket, detecting>>

(* ------------------------------ bindEvents ----------------------------- *)
\* lines 167-169
SkipTimeout ==
    /\ page = "open"
    /\ \E i \in Due("skip") :
          /\ timers' = Remove(timers, i)
          /\ dom' = [dom EXCEPT !.skipBtn = TRUE]
    /\ UNCHANGED <<dbVars, scanVars, page, playerName, detector, camera, socket, detecting, cycles, tally>>

\* lines 173-186: a click on the skip button; the page navigates away
skipFaceScan ==
    /\ page = "open"
    /\ dom.skipBtn
    /\ page' = "left"
    /\ camera' = IF camera = "live" THEN "stopped" ELSE camera
    /\ timers' = << >>
    /\ detecting' = << >>
    /\ UNCHANGED <<dbVars, scanVars, playerName, detector, socket, cycles, dom, tally>>

\* lines 424-432: a click on the continue button; the page navigates away
continueToGame ==
    /\ page = "open"
    /\ dom.continueBtn
    /\ page' = "left"
    /\ timers' = << >>
    /\ detecting' = << >>
    /\ UNCHANGED <<dbVars, scanVars, playerName, detector, camera, socket, cycles, dom, tally>>

(* ------------------------------- time ---------------------------------- *)
\* a tick passes: no timer is left waiting past its delay
FaceTick ==
    /\ page = "open"
    /\ timers # << >>
    /\ \A i \in DOMAIN timers : timers[i].left > 0
    /\ timers' = [i \in DOMAIN timers |-> [timers[i] EXCEPT !.left = timers[i].left - 1]]
    /\ UNCHANGED <<dbVars, scanVars, page, playerName, detector, camera, socket, detecting, cycles, dom, tally>>

\* the database module plays no part in the page
NoDb ==
    /\ acceptsOrderedUpdate = FALSE
    /\ players = << >>
    /\ game_sessions = << >>
    /\ now = 0
    /\ pc = [p \in Procs |-> "idle"]
    /\ op = [p \in Procs |-> ""]
    /\ args = [p \in Procs |-> NoArgs]
    /\ loc = [p \in Procs |-> NoLoc]
    /\ held = [p \in Procs |-> 0]
    /\ faults = 0
    /\ aggregated = {}
    /\ plan = << >>
    /\ script = << >>
    /\ results = << >>

\* lines 3-30: the constructor has run: the player is known, getUserMedia is pending, the
\* skip timer is set, the socket was created (or io() threw) and is not connected yet
InitFace ==
    /\ NoDb
    /\ NoScan
    /\ page = "open"
    /\ playerName \in PlayerNames
    /\ detector \in BOOLEAN
    /\ camera = "acquiring"
    /\ socket \in {"none", "disconnected"}
    /\ detecting = << >>
    /\ timers = <<Timer("skip", SkipDelayMs, 0)>>
    /\ cycles = << >>
    /\ dom = InitDom
    /\ tally = InitTally

NextFace ==
    \/ initCamera
    \/ SocketConnects
    \/ PredictionResult
    \/ PredictionError
    \/ ErrorFallback
    \/ capturePhoto
    \/ requestPrediction
    \/ NoSocketFallback
    \/ ResultTimeout
    \/ Watchdog
    \/ SkipTimeout
    \/ skipFaceScan
    \/ continueToGame
    \/ FaceTick

SpecFace == InitFace /\ [][NextFace]_vars

(* ----------------------- detectFace (lines 189-244) -------------------- *)
\* canvases of every size up to MaxSide x MaxSide are drawn; ExactSize is the smallest canvas
\* whose sampled centre pixels (50 of them) can be skin-toned to exactly 12%
MaxSide == 6
ExactSize == <<23, 24>>
Sizes == ((1..MaxSide) \X (1..MaxSide)) \cup {ExactSize}

\* pixel colours <<r, g, b>>, on both sides of each comparison of lines 230-233
Palette ==
    { <<0, 0, 0>>,          \* black
      <<200, 150, 120>>,    \* skin-toned
      <<61, 41, 21>>,       \* skin-toned, just above the floors of line 230
      <<60, 41, 21>>,       \* r = 60: below the floor
      <<255, 100, 85>> }    \* r - b = 170: not below the ceiling of line 233

Backgrounds == {<<0, 0, 0>>, <<200, 150, 120>>}

\* what is drawn on a canvas: in raster order, the first `lead` pixels have colour `first`, the
\* others colour `rest`
Canvases ==
    {c \in [width : 1..23, height : 1..24, lead : 0..(23 * 24), first : Palette, rest : Backgrounds] :
        /\ <<c.width, c.height>> \in Sizes
        /\ c.lead <= c.width * c.height
        /\ c.first # c.rest
        /\ c.lead = 0 => c.first = <<60, 41, 21>>}

\* window.FaceDetector: "absent", "throws" (the constructor throws) or "present"; and what
\* detect() does when it is called: it rejects, or resolves to a list of faces
\* (maxDetectedFaces: 1)
Platforms ==
    [FaceDetector : {"absent", "throws", "present"}, detectThrows : BOOLEAN, faces : 0..1]

\* line 204, ctx.getImageData(0, 0, width, height).data: four bytes (r, g, b, a) per pixel in
\* raster order, indexed from 0
ImageData(c) ==
    [i \in 0..(4 * c.width * c.height - 1) |->
        IF i % 4 = 3 THEN 255
        ELSE IF (i \div 4) < c.lead THEN c.first[(i % 4) + 1] ELSE c.rest[(i % 4) + 1]]

Min(a, b) == IF a <= b THEN a ELSE b

\* lines 216-217: every second pixel of every second row
Sampled(c) ==
    {xy \in (0..(c.width - 1)) \X (0..(c.height - 1)) : xy[1] % 2 = 0 /\ xy[2] % 2 = 0}

\* lines 210-212, 219-221: the pixel is not skipped by the `continue`:
\* dx*dx + dy*dy <= checkRadius^2 with dx = x - width/2, dy = y - height/2 and
\* checkRadius = min(width, height) * 0.35, all multiplied by 400
InCenter(c, xy) ==
    100 * ((2 * xy[1] - c.width) * (2 * xy[1] - c.width)
             + (2 * xy[2] - c.height) * (2 * xy[2] - c.height))
       <= 49 * Min(c.width, c.height) * Min(c.width, c.height)

\* lines 230-233
SkinTone(r, g, b) ==
    /\ r > 60 /\ g > 40 /\ b > 20
    /\ r > g /\ r > b
    /\ Abs(r - g) > 10
    /\ r - b > 10 /\ r - b < 170

\* lines 223-227: the pixels counted in checkedPixels, and those also counted in skinPixels
Checked(c) == {xy \in Sampled(c) : InCenter(c, xy)}
Skin(c) ==
    {xy \in Checked(c) :
        LET data == ImageData(c)
            i == (xy[2] * c.width + xy[1]) * 4
        IN  SkinTone(data[i], data[i + 1], data[i + 2])}

\* a variant of lines 239-243 that accepts 12% itself
ExceedsOrMeets(skinPixels, checkedPixels) ==
    checkedPixels > 0 /\ 100 * skinPixels >= 12 * checkedPixels

\* lines 239-243: skinPercentage > 12, skinPercentage being 0 when nothing was checked. The
\* double (skinPixels / checkedPixels) * 100 exceeds 12 exactly when 100 * skinPixels exceeds
\* 12 * checkedPixels, for every count a canvas of up to 1280 x 1280 (lines 68-69) can give
Exceeds(skinPixels, checkedPixels) ==
    checkedPixels > 0 /\ 100 * skinPixels > 12 * checkedPixels

\* lines 202-243
SkinToneFallback(c) == Exceeds(Cardinality(Skin(c)), Cardinality(Checked(c)))

\* lines 189-244: supported is this.faceDetectionSupported && this.faceDetector
detectFaceOf(supported, pf, c) ==
    IF supported /\ ~pf.detectThrows
    THEN pf.faces > 0
    ELSE SkinToneFallback(c)

\* lines 42-57
initFaceDetection ==
    /\ step = "constructed"
    /\ step' = "initialized"
    /\ detector' = (platform.FaceDetector = "present")
    /\ UNCHANGED <<dbVars, page, playerName, camera, socket, detecting, timers, cycles, dom, tally,
                   platform, canvas, verdict>>

detectFace ==
    /\ step = "initialized"
    /\ step' = "detected"
    /\ verdict' = detectFaceOf(detector, platform, canvas)
    /\ UNCHANGED <<dbVars, faceVars, platform, canvas>>

\* the constructor is about to call init (line 12); the browser and the frame are any
InitDetect ==
    /\ NoDb
    /\ page = "open"
    /\ playerName = "Agent"
    /\ detector = FALSE
    /\ camera = "live"
    /\ socket = "none"
    /\ detecting = << >>
    /\ timers = << >>
    /\ cycles = << >>
    /\ dom = InitDom
    /\ tally = InitTally
    /\ platform \in Platforms
    /\ canvas \in Canvases
    /\ step = "constructed"
    /\ verdict = FALSE

NextDetect ==
    \/ initFaceDetection
    \/ detectFace

SpecDetect == InitDetect /\ [][NextDetect]_vars

(* ============================ properties =============================== *)
RowsByEmail(e) == {i \in DOMAIN players : players[i].email = e}
Last(s) == s[Len(s)]
Completed(i) == game_sessions[i].game_completed_at # NULL
\* the completed sessions that reference player row i
CompletedOf(i) == {j \in DOMAIN game_sessions : Completed(j) /\ game_sessions[j].player_id = players[i].id}
\* call k of the plan settled without a failure of the database (connection or statement)
Undisturbed(k) == results[k].err \notin {"connection", "query"}
PlanDone == plan # << >> /\ Len(results) = Len(plan)

(* C1: however upsertPlayer / createGameSession calls for one email interleave, the   *)
(* players table holds one row with that email and every caller resolves to its id.   *)
C1_OneRowPerEmail ==
    /\ \A e \in Emails : Cardinality(RowsByEmail(e)) <= 1
    /\ \A p \in Procs : pc[p] = "c_insert" =>
          \A i \in RowsByEmail(args[p].email) : players[i].id = loc[p].playerId

(* C2: upsertPlayer for an email that already has a player row inserts no row, changes *)
(* no field of any player row and returns the id of the existing row.                  *)
C2_ExistingEmailUntouched ==
    [][(/\ pc[Caller] = "u_insert"
        /\ pc'[Caller] # "u_insert"
        /\ RowsByEmail(args[Caller].email) # {}
        /\ faults' = faults)
       => /\ players' = players
          /\ IF op[Caller] = "upsertPlayer"
             THEN /\ Last(results').kind = "ok"
                  /\ \E i \in RowsByEmail(args[Caller].email) : players[i].id = Last(results').val
             ELSE \E i \in RowsByEmail(args[Caller].email) : players[i].id = loc'[Caller].playerId]_vars

MaxOf(S) == CHOOSE x \in S : \A y \in S : y <= x
NonNegative(S) ==
    \A j \in S : game_sessions[j].score >= 0 /\ game_sessions[j].vaults_opened >= 0
NoCompletionRunning == \A p \in Procs : op[p] # "completeGameSession"
\* player row i holds the best of the set S of sessions
HoldsBestOf(i, S) ==
    /\ players[i].score = MaxOf({game_sessions[j].score : j \in S})
    /\ players[i].vaults_opened = MaxOf({game_sessions[j].vaults_opened : j \in S})
    /\ players[i].win_status <=> (\E j \in S : game_sessions[j].win_status)

SameEmail(ks) == \A k \in ks : plan[k].args.email = plan[1].args.email
OpsAre(fs) == Len(plan) >= Len(fs) /\ \A k \in DOMAIN fs : plan[k].op = fs[k]

(* C4: createGameSession; completeGameSession(s1,v1,w1); createGameSession;            *)
(* completeGameSession(s2,v2,w2) for one email, from the empty database, ends with      *)
(* both sessions on the one player row of that email, which holds max(s1,s2),           *)
(* max(v1,v2) and (w1 or w2).                                                           *)
C4_SecondSessionKeepsBest ==
    (/\ OpsAre(<<"createGameSession", "completeGameSession",
                 "createGameSession", "completeGameSession">>)
     /\ SameEmail(1..4)
     /\ plan[2].args.score >= 0 /\ plan[4].args.score >= 0
     /\ Len(results) = 4
     /\ \A k \in 1..4 : Undisturbed(k))
    => /\ \A k \in 1..4 : results[k].kind = "ok"
       /\ Cardinality(RowsByEmail(plan[1].args.email)) = 1
       /\ \A i \in RowsByEmail(plan[1].args.email) :
             /\ \A j \in DOMAIN game_sessions : game_sessions[j].player_id = players[i].id
             /\ players[i].score = Greatest(plan[2].args.score, plan[4].args.score)
             /\ players[i].vaults_opened = Greatest(plan[2].args.vaults, plan[4].args.vaults)
             /\ players[i].win_status = (plan[2].args.won \/ plan[4].args.won)

(* C5: completeGameSession for an email without an open session returns null, raises    *)
(* nothing, and leaves every row of game_sessions and players as it was.                *)
C5_NothingToComplete ==
    [][(/\ pc[Caller] = "g_session"
        /\ pc'[Caller] # "g_session"
        /\ OpenSessions(args[Caller].email) = {}
        /\ faults' = faults)
       => /\ players' = players
          /\ game_sessions' = game_sessions
          /\ Last(results').kind = "null"]_vars

(* C6: with k >= 1 open sessions of the email, completeGameSession finalizes exactly    *)
(* the open one started latest: sets its score, vaults_opened, win_status,              *)
(* game_completed_at and duration_seconds, leaves every other session row alone, and    *)
(* returns its id.                                                                      *)
C6_FinalizesLatestOpen ==
    [][/\ (/\ pc[Caller] = "g_session"
           /\ pc'[Caller] # "g_session"
           /\ OpenSessions(args[Caller].email) # {}
           /\ faults' = faults)
          => /\ pc'[Caller] = "g_player"
             /\ Len(game_sessions') = Len(game_sessions)
             /\ \E i \in LatestOpen(args[Caller].email) :
                   /\ loc'[Caller].sid = game_sessions[i].id
                   /\ game_sessions'[i].score = args[Caller].score
                   /\ game_sessions'[i].vaults_opened = args[Caller].vaults
                   /\ game_sessions'[i].win_status = args[Caller].won
                   /\ game_sessions'[i].game_completed_at = now
                   /\ game_sessions'[i].duration_seconds # NULL
                   /\ \A j \in DOMAIN game_sessions : j # i => game_sessions'[j] = game_sessions[j]
       /\ (pc[Caller] = "g_player" /\ pc'[Caller] # "g_player" /\ faults' = faults)
          => /\ game_sessions' = game_sessions
             /\ Last(results').kind = "ok"
             /\ Last(results').val = loc[Caller].sid]_vars

(* C7 as stated: two open sessions of one email, then two completeGameSession calls:    *)
(* both calls return the id of the same, later-started session.                         *)
TwoTabs ==
    /\ OpsAre(<<"createGameSession", "createGameSession",
                "completeGameSession", "completeGameSession">>)
    /\ SameEmail(1..4)
    /\ Len(results) >= 4
LaterStarted ==
    {j \in 1..2 : \A k \in 1..2 : game_sessions[k].game_started_at <= game_sessions[j].game_started_at}

C8_CompletedSessionsFrozen ==
    [][\A i \in DOMAIN game_sessions :
          /\ i \in DOMAIN game_sessions'
          /\ game_sessions'[i].id = game_sessions[i].id
          /\ Completed(i) => game_sessions'[i] = game_sessions[i]
          /\ game_sessions'[i] # game_sessions[i]
                => ~Completed(i) /\ game_sessions'[i].game_completed_at # NULL]_vars

\* two sessions of one email, both completed, the second while the first was already completed
C8_Witness ==
    \E i, j \in DOMAIN game_sessions :
        /\ i # j
        /\ game_sessions[i].email = game_sessions[j].email
        /\ Completed(i) /\ Completed(j)
        /\ game_sessions[i].game_completed_at < game_sessions[j].game_completed_at

(* C9: no player row is ever deleted, and in every step each player row's score and     *)
(* vaults_opened do not decrease, win_status does not go from true to false, and        *)
(* created_at stays.                                                                    *)
C9_PlayerStatsMonotonic ==
    [][\A i \in DOMAIN players :
          /\ i \in DOMAIN players'
          /\ players'[i].id = players[i].id
          /\ players'[i].score >= players[i].score
          /\ players'[i].vaults_opened >= players[i].vaults_opened
          /\ players[i].win_status => players'[i].win_status
          /\ players'[i].created_at = players[i].created_at]_vars

\* a player row after the player UPDATE of a session with a score below the row's
C9_Witness ==
    \E j \in aggregated : \E i \in DOMAIN players :
        /\ players[i].id = game_sessions[j].player_id
        /\ game_sessions[j].score < players[i].score
        /\ players[i].updated_at > players[i].created_at

(* C10 as stated: in every reachable state every completed session is covered by its   *)
(* player row: p.score >= s.score, p.vaults_opened >= s.vaults_opened, and              *)
(* s.win_status implies p.win_status.                                                   *)
Covers(i, j) ==
    /\ players[i].score >= game_sessions[j].score
    /\ players[i].vaults_opened >= game_sessions[j].vaults_opened
    /\ game_sessions[j].win_status => players[i].win_status

C11_DurationIsElapsed ==
    \A i \in DOMAIN game_sessions :
        LET s == game_sessions[i] IN
        IF s.game_completed_at # NULL
        THEN /\ s.game_completed_at >= s.game_started_at
             /\ s.duration_seconds >= 0
             /\ 2 * Abs(s.duration_seconds * TicksPerSecond
                        - (s.game_completed_at - s.game_started_at)) <= TicksPerSecond
        ELSE s.duration_seconds = NULL

\* a session completed a tick after its start next to one completed in the tick of its start
C11_Witness ==
    \E i, j \in DOMAIN game_sessions :
        /\ Completed(i) /\ game_sessions[i].game_completed_at > game_sessions[i].game_started_at
        /\ Completed(j) /\ game_sessions[j].game_completed_at = game_sessions[j].game_started_at
        /\ game_sessions[j].game_started_at > 0

Operations ==
    {"initDatabase", "upsertPlayer", "createGameSession", "completeGameSession",
     "getLeaderboard", "getAllGameSessions", "getPlayerStats", "healthCheck"}

(* C12: a call of any of the eight operations holds at most one pool connection at any  *)
(* moment, and a caller with no call in progress holds none (every connection acquired  *)
(* was released when the call returned or threw).                                       *)
C12_OneConnectionPerOperation ==
    \A p \in Procs :
        /\ op[p] \in Operations => held[p] <= 1
        /\ pc[p] = "idle" => held[p] = 0

\* the recorded call was of f and has settled
Settled(f) == plan # << >> /\ plan[1].op = f /\ Len(results) = 1

(* C13: healthCheck() never rejects: it resolves to a boolean, true when the database   *)
(* answered, false when it did not, whether the pool failed to hand out a connection or *)
(* the query failed.                                                                    *)
C13_HealthCheckNeverRejects ==
    Settled("healthCheck") =>
        /\ results[1].kind = "ok"
        /\ results[1].val \in BOOLEAN
        /\ faults = 0 => results[1].val = TRUE

\* the recorded call takes the step
CallerSteps == pc'[Caller] # pc[Caller] \/ loc'[Caller].stmt # loc[Caller].stmt
\* the step's connect or statement fails: the database fails it, or the engine rejects
\* the session UPDATE
StepFails == faults' # faults \/ (pc[Caller] = "g_session" /\ ~acceptsOrderedUpdate)

(* C14: when a statement issued by initDatabase, upsertPlayer, createGameSession,        *)
(* completeGameSession, getLeaderboard, getAllGameSessions or getPlayerStats fails (or   *)
(* its connection cannot be acquired), the call ends there and rejects: no id, rows or   *)
(* null is returned; this holds for each of the five statements of initDatabase.         *)
C14_FailuresPropagate ==
    [][(/\ CallerSteps
        /\ op[Caller] \in Operations \ {"healthCheck"}
        /\ StepFails)
       => /\ pc'[Caller] = "idle"
          /\ Len(results') = Len(results) + 1
          /\ Last(results').kind = "throw"]_vars

\* initDatabase rejected because one of its statements failed
C14_Witness ==
    /\ Settled("initDatabase")
    /\ results[1].kind = "throw"
    /\ results[1].err = "query"

\* the recorded call, of f, runs its query and the database does not fail it
Answers(f) ==
    /\ pc[Caller] = "r_query"
    /\ op[Caller] = f
    /\ CallerSteps
    /\ faults' = faults

\* row a stands at or before row b under score descending, then updated_at descending
NotAfter(a, b) == a.score > b.score \/ (a.score = b.score /\ a.updated_at >= b.updated_at)

(* C15: getLeaderboard(limit), limit >= 0, returns at most limit rows, each with        *)
(* score > 0, in the order score descending then updated_at descending, and they are    *)
(* the first limit of the players with score > 0 in that order: as many as there are    *)
(* such players up to limit, and no player left out stands strictly before a row        *)
(* returned.                                                                            *)
C15_LeaderboardIsTopN ==
    [][Answers("getLeaderboard") =>
          LET rows == Last(results').val
              n == args[Caller].limit
              positive == {i \in DOMAIN players : players[i].score > 0}
          IN /\ Last(results').kind = "ok"
             /\ Len(rows) <= n
             /\ \A k \in DOMAIN rows : rows[k].score > 0
             /\ \A a, b \in DOMAIN rows : a < b => NotAfter(rows[a], rows[b])
             /\ Len(rows) = IF Cardinality(positive) < n THEN Cardinality(positive) ELSE n
             /\ \E t \in [DOMAIN rows -> positive] :
                   /\ \A a, b \in DOMAIN rows : a # b => t[a] # t[b]
                   /\ \A k \in DOMAIN rows : rows[k] = PlayerColumns(players[t[k]])
                   /\ \A j \in positive \ {t[k] : k \in DOMAIN rows} :
                         \A k \in DOMAIN rows : NotAfter(rows[k], players[j])]_vars

\* both players returned, the one with the higher score first although updated earlier
C15_Witness ==
    /\ Settled("getLeaderboard")
    /\ results[1].kind = "ok"
    /\ Len(results[1].val) = 2
    /\ results[1].val[1].score = 500 /\ results[1].val[1].updated_at = 0
    /\ results[1].val[2].score = 300 /\ results[1].val[2].updated_at = 1

(* C16: getPlayerStats(email) returns null exactly when no player has the email;        *)
(* otherwise the query yields one aggregate row for the email, and the total_games      *)
(* returned is the number of sessions started under that email.                         *)
C16_StatsOneRowPerEmail ==
    [][Answers("getPlayerStats") =>
          LET e == args[Caller].email
              out == Last(results')
          IN /\ out.kind \in {"ok", "null"}
             /\ out.kind = "null" <=> RowsByEmail(e) = {}
             /\ out.kind = "ok" =>
                   /\ Cardinality(StatsGroups(e)) = 1
                   /\ out.val.total_games = Cardinality(SessionsOf(e))]_vars

(* ======================= properties of the face-scan page ============== *)
\* the timers of requestPrediction call c that have not run yet
TimersOf(c) == {i \in DOMAIN timers : timers[i].cycle = c}
\* every requestPrediction call made has run all its timers, and no showError timer is left
Quiet == \A i \in DOMAIN timers : timers[i].kind \in {"skip", "hideError", "animation"}

(* C17: for each successful capture showPrediction is executed exactly once, whatever   *)
(* the order of prediction:result, prediction:error, the 3-second timeout and the       *)
(* 5-second watchdog: never more runs of showPrediction than requestPrediction calls,   *)
(* and as many once their timers have run (the server sends only answers to requests).  *)
C17_OneDisplayPerCapture ==
    (page = "open" /\ ~tally.unasked) =>
        /\ tally.shows <= Len(cycles)
        /\ Quiet => tally.shows = Len(cycles)

\* 5 seconds have passed since requestPrediction call c: its watchdog is due or has run
FiveSecondsAfter(c) == \A i \in TimersOf(c) : timers[i].kind = "watchdog" => timers[i].left = 0
LoadingVisible == dom.loadingActive /\ ~dom.loadingHidden

(* C18: once requestPrediction has run, a prediction is displayed and the continue      *)
(* button shown by the time 5 seconds have passed, whether there is no socket, the      *)
(* socket is disconnected, connected and silent, or the server answers with             *)
(* prediction:error; the loading indicator is not left showing.                         *)
C18_DisplayedWithinFiveSeconds ==
    page = "open" =>
        \A c \in DOMAIN cycles :
            FiveSecondsAfter(c) => dom.prediction /\ dom.continueBtn /\ ~LoadingVisible

\* 5 seconds after a request that was sent and answered with prediction:error only
C18_Witness ==
    /\ page = "open"
    /\ Len(cycles) = 1
    /\ TimersOf(1) = {}
    /\ tally.emitted = 1
    /\ tally.events = 1
    /\ ~tally.unasked
    /\ dom.errorText \in ServerErrors
    /\ dom.prediction /\ dom.continueBtn

\* the 3-second timer of requestPrediction call c runs and no prediction:result has come
\* since the request (the once-listener of c is still registered)
TimeoutUnanswered(c) ==
    /\ cycles[c].listening
    /\ \E i \in Due("resultTimeout") : timers[i].cycle = c /\ timers' = Remove(timers, i)
Contains(text, part) == \E k \in DOMAIN text : text[k] = part
\* the texts of the canned fallback of useFallbackPrediction (lines 397-404)
CannedTexts ==
    [goodThing1 |-> <<"You have incredible focus and determination">>,
     goodThing2 |-> <<"Your quick thinking will be your greatest asset">>,
     fortune |-> <<"The vaults sense great potential in you. Trust your instincts and the codes will reveal themselves.">>,
     wish |-> <<"May luck be on your side, Agent ", playerName, "!">>]

(* C19: when the request was emitted on a connected socket and no prediction:result     *)
(* came within 3 seconds, then as the 3-second timer runs the prediction displayed is   *)
(* the canned fallback, its wish text contains the player's name, and no text of a      *)
(* server payload is displayed.                                                         *)
C19_FallbackAtTimeout ==
    [][\A c \in DOMAIN cycles :
          TimeoutUnanswered(c) =>
             /\ dom'.prediction
             /\ dom'.texts = CannedTexts
             /\ Contains(dom'.texts.wish, playerName)
             /\ \A data \in ServerPayloads :
                   /\ dom'.texts.wish # data.wish
                   /\ dom'.texts.fortune # data.fortune]_vars

\* the timeout has just run on a silent socket: the fallback is up, the watchdog still to come
C19_Witness ==
    /\ page = "open"
    /\ Len(cycles) = 1
    /\ tally.emitted = 1 /\ tally.events = 0 /\ tally.shows = 1
    /\ cycles[1].predictionShown /\ ~cycles[1].listening
    /\ \E i \in TimersOf(1) :
          timers[i].kind = "watchdog" /\ timers[i].left = Ticks(WatchdogMs - ResultTimeoutMs)
    /\ dom.texts = CannedTexts

\* the states of the flow before a request: acquiring-camera, ready, capturing, detecting
\* (retry), captured
BeforeRequest == cycles = << >>

(* C20: a prediction:request is emitted only after a capture whose face detection       *)
(* succeeded, and a prediction is displayed only after requestPrediction has run: none  *)
(* is displayed while the flow is in acquiring-camera, ready, capturing or detecting,   *)
(* whatever socket events arrive.                                                       *)
C20_StateOrder ==
    /\ tally.emitted > 0 => dom.captured /\ dom.captureDisabled
    /\ tally.emitted <= Len(cycles)
    /\ cycles # << >> => dom.captured
    /\ BeforeRequest => ~dom.prediction /\ ~dom.continueBtn

\* capturePhoto goes on after detectFace: a timer of the given kind is set in the step
Sets(kind) == Len(timers') = Len(timers) + 1 /\ timers'[Len(timers')].kind = kind
\* a click on the capture button reaches capturePhoto (the listener of line 159)
CanCapture == page = "open" /\ ~dom.captureDisabled
NoFaceText ==
    <<"No face detected! Please position your face in the center of the circle and try again.">>

(* C21: when detectFace reports no face, capturePhoto leaves the camera stream and the  *)
(* capture button as they are (live and enabled for a first attempt), stores no image   *)
(* and starts no prediction request, so the capture can be tried again; when it reports *)
(* a face, the stream is stopped and the button disabled from that step on, before      *)
(* requestPrediction runs.                                                              *)
C21_RetryOrSingleShot ==
    [][/\ Sets("hideError") =>
             /\ camera' = camera
             /\ dom'.captureDisabled = dom.captureDisabled
             /\ dom'.captured = dom.captured
             /\ dom'.errorText = NoFaceText /\ dom'.errorActive
             /\ cycles' = cycles
             /\ tally'.emitted = tally.emitted
             /\ (camera = "live" /\ ~dom.captured)
                   => CanCapture'
       /\ Sets("animation") =>
             /\ camera' = "stopped"
             /\ dom'.captureDisabled /\ dom'.captured
             /\ cycles' = cycles
       /\ Len(cycles') > Len(cycles) => camera = "stopped" /\ dom.captureDisabled]_vars

\* a first attempt found no face, the second one found a face
C21_Witness ==
    /\ tally.clicks = 2
    /\ dom.errorText = NoFaceText
    /\ dom.captured /\ dom.captureDisabled
    /\ camera = "stopped"
    /\ cycles = << >>

\* the share of the checked pixels that are skin-toned exceeds 12%
OverTwelvePercent ==
    /\ Cardinality(Checked(canvas)) > 0
    /\ Cardinality(Skin(canvas)) * 100 > 12 * Cardinality(Checked(canvas))

CameraFailed == camera \in CameraErrors

\* getUserMedia rejects in this step
CameraFails == camera = "acquiring" /\ camera' \in CameraErrors

\* no two of the three named failure classes, nor the default, share a message
DistinctCameraTexts ==
    \A e1, e2 \in CameraErrors : e1 # e2 => CameraErrorText(e1) # CameraErrorText(e2)

\* the banner and the button when acquisition fails
FailureShown ==
    CameraFails => /\ dom'.captureDisabled
                   /\ dom'.errorActive
                   /\ dom'.errorText = CameraErrorText(camera')
                   /\ DistinctCameraTexts

\* after the failure the button stays disabled and no capture is started or goes on
NoCaptureAfterFailure ==
    CameraFailed => /\ dom.captureDisabled /\ ~dom.captured
                    /\ dom'.captureDisabled /\ ~dom'.captured
                    /\ tally'.clicks = tally.clicks
                    /\ ~Sets("animation")
                    /\ cycles' = cycles

C23_FailureShown == [][FailureShown]_vars
C23_NoCaptureAfterFailure == [][NoCaptureAfterFailure]_vars

\* after the failure the banner stays up as long as the page is open. Not an invariant of the
\* page: a no-face verdict of a capture clicked before the failure (lines 267-273) and a
\* prediction:error (lines 409-421) replace the text and hide the banner
C23_BannerStays ==
    CameraFailed /\ page = "open" => dom.errorActive /\ dom.errorText = CameraErrorText(camera)

(* C23: if camera acquisition fails, the capture button is disabled and the error banner *)
(* shows the message of the failure class (three named classes and a default, all       *)
(* distinct); from then on no capture can be started, and the page can be left only by   *)
(* the skip button: the continue button never becomes available.                         *)
C23_CameraFailureLeavesOnlySkip ==
    [][/\ FailureShown
       /\ NoCaptureAfterFailure
       /\ CameraFailed' => ~dom'.continueBtn
       /\ CameraFailed /\ page = "open" /\ page' = "left" => dom.skipBtn /\ ~dom.continueBtn]_vars

\* caller p is inside createGameSession, holds its own connection (line 97) and awaits the
\* pool.connect() of the nested upsertPlayer (line 68)
AwaitsSecondConnection(p) ==
    op[p] = "createGameSession" /\ pc[p] = "u_connect" /\ held[p] = 1

\* every connection of the pool is held by such a call: none of them can go on, and none
\* releases (pool.connect() has no timeout, lines 4-10)
PoolStarved ==
    /\ SumHeld(Procs) = PoolMax
    /\ \A p \in Procs : held[p] > 0 => AwaitsSecondConnection(p)

(* C24: whatever the number of concurrent createGameSession calls, no state is reachable *)
(* in which every pool connection is held by a createGameSession call that waits for a  *)
(* second connection for its nested upsertPlayer.                                       *)
C24_NoPoolStarvation == ~PoolStarved

(* C25: at most one prediction request cycle is started per page load, also when the     *)
(* capture button is clicked again while an earlier capturePhoto still awaits            *)
(* detectFace: requestPrediction runs at most once and prediction:request is emitted at  *)
(* most once.                                                                            *)
C25_OneRequestCycle ==
    /\ Len(cycles) <= 1
    /\ tally.emitted <= 1

(* C26: once a prediction has been displayed and showPrediction has hidden the skip      *)
(* button, no later step makes the skip button visible again, whether the 5 s timer of   *)
(* bindEvents fires before or after the display (stated for pages the server sent no     *)
(* event to: the display is the fallback's).                                             *)
C26_SkipStaysHidden ==
    [][tally.events = 0 /\ dom.prediction /\ ~dom.skipBtn => ~dom'.skipBtn]_vars

====
